---- MODULE Spec2Model ----
(***************************************************************************)
(* The driving-session screen of TrafficAlert (HomeScreen): the component  *)
(* state (driving, status, busy, lastHit), the two refs (timerRef,         *)
(* soundRef), the interval timers of the runtime, and the async function   *)
(* tick() together with beep(), cut at their await points.  Every action   *)
(* is one run-to-completion piece of the single-threaded event loop: a     *)
(* button handler, a timer callback, or the continuation of an await.      *)
(***************************************************************************)
EXTENDS Integers, Sequences, FiniteSets, TLC

\* ---- bounds -------------------------------------------------------------
\* number of tick() activations that may be in flight at once
MaxInFlight == 2
\* longest hit list the backend answers with
MaxHits == 2

\* ---- data ---------------------------------------------------------------
Slots == 1..MaxInFlight

\* coordinates the location provider may return (latitude, longitude)
Positions == {<<40, -3>>, <<41, 2>>}

\* HTTP status codes the backend may answer with
StatusCodes == {200, 404, 500}

\* AlertHit values: the event (by id) and its distance
Hits == {[event |-> [id |-> "a1"], distanceMeters |-> 1500],
         [event |-> [id |-> "b2"], distanceMeters |-> 300]}

\* bodies res.json() may resolve to: arrays of hits, nearest first
HitLists == UNION {[1..n -> Hits] : n \in 0..MaxHits}

\* ---- status labels ------------------------------------------------------
Listo == "Listo"
Activa == "Conduccion activa"
Obteniendo == "Obteniendo ubicacion..."
Consultando == "Consultando incidencias..."
SinIncidencias == "Sin incidencias cercanas"
ALERTA == "ALERTA"
ErrorConsultando == "Error consultando backend"
Parado == "Parado"

\* `Backend ${res.status}`
BackendLabel(c) == "Backend " \o ToString(c)

\* res.ok of a fetch Response: a status in the range 200-299
ResOk(c) == c >= 200 /\ c <= 299

\* a request with latitude and longitude swapped
Url_Swapped(latitude, longitude) ==
    [path |-> "/alerts", lat |-> longitude, lon |-> latitude, radiusMeters |-> 2000]

\* the request of line 140: path, lat, lon, radiusMeters
Url(latitude, longitude) ==
    [path |-> "/alerts", lat |-> latitude, lon |-> longitude, radiusMeters |-> 2000]

VARIABLES
    mounted,    \* the screen is mounted (state setters have an effect)
    perm,       \* foreground-location permission: "asking" while the request of
                \* the mount effect is pending, then "granted" or "denied"
    driving,    \* useState(false)
    status,     \* useState("Listo")
    busy,       \* useState(false)
    lastHit,    \* useState<AlertHit | null>(null): <<>> is null, <<h>> is h
    timerRef,   \* useRef(null): 0 is null, else the interval id
    soundRef,   \* useRef(null): 0 is null, else the sound handle
    timers,     \* interval ids armed in the runtime (setInterval/clearInterval)
    sounds,     \* number of sound handles Audio.Sound.createAsync has produced
    ticks,      \* the activations of tick(): slot -> frame
    newest,     \* start order of the ticks, kept by the behaviours of OrderSpec:
                \* the slot of the tick() called last, 0 once it has returned;
                \* Unordered in the behaviours that do not keep it
    ev          \* the piece of code the event loop ran last, and its input

vars == <<mounted, perm, driving, status, busy, lastHit, timerRef, soundRef,
          timers, sounds, ticks, newest, ev>>

\* the start order of the ticks is not kept
Unordered == -1

\* ---- tick frames --------------------------------------------------------
\* pc: the await the activation is suspended at, or "idle" for a free slot;
\* url: the request in flight, <<>> when none; beeps: calls of beep() so far.
IdleFrame == [pc |-> "idle", url |-> <<>>, beeps |-> 0]

InFlight(s) == ticks[s].pc # "idle"

NumInFlight == Cardinality({s \in Slots : InFlight(s)})

HasFree == \E s \in Slots : ~InFlight(s)

FreeSlot == CHOOSE s \in Slots : ~InFlight(s) /\ \A r \in Slots : ~InFlight(r) => s <= r

\* ---- events -------------------------------------------------------------
\* op: the handler run ("startDriving", "stopDriving", "unmount", "timer",
\* "manual") or the await that settled ("locate", "fetch", "json", "create",
\* "replay");
\* ok: the await resolved (FALSE: it rejected); pos, code, hits: the value
\* it resolved with; ret: the branch tick() returned by in this step, "none"
\* when it did not return; beeps: calls of beep() the activation has made.
NoEvent ==
    [op |-> "init", ok |-> TRUE, pos |-> <<>>, code |-> 0,
     hits |-> <<>>, ret |-> "none", beeps |-> 0]

\* a state setter of the component: dropped by React once unmounted
SetState(old, new) == IF mounted THEN new ELSE old

\* a tick() that drops its writes once the session is stopped
TickSet_IfDriving(old, new) == IF driving THEN SetState(old, new) ELSE old

\* a setter called from tick(): the value is written whatever driving is
TickSet(old, new) == SetState(old, new)

\* a tick() that tears the session down
TickLeaves_StopsSession ==
    /\ driving' = FALSE /\ timerRef' = 0 /\ timers' = {}
    /\ UNCHANGED <<mounted, perm>>

\* what tick() leaves alone: it never touches the session or its timer
TickLeaves == UNCHANGED <<mounted, perm, driving, timerRef, timers>>

\* setInterval returns an id no live timer has
FreshTimer == IF timers = {} THEN 1
              ELSE (CHOOSE m \in timers : \A i \in timers : i <= m) + 1

\* tick(), lines 129-135: the synchronous part up to the first await
\*   setBusy(true); setStatus("Obteniendo ubicacion..."); getCurrentPositionAsync
\* st is the status pending when tick() is called
TickEnter(op, st) ==
    /\ HasFree
    /\ busy' = TickSet(busy, TRUE)
    /\ status' = TickSet(st, Obteniendo)
    /\ ticks' = [ticks EXCEPT ![FreeSlot].pc = "locating"]
    /\ newest' = IF newest = Unordered THEN Unordered ELSE FreeSlot
    /\ ev' = [NoEvent EXCEPT !.op = op]

\* tick() without its finally block
TickReturn_NoFinally(s, e, st, hit, outcome) ==
    /\ status' = TickSet(status, st)
    /\ lastHit' = TickSet(lastHit, hit)
    /\ busy' = busy
    /\ ticks' = [ticks EXCEPT ![s] = IdleFrame]
    /\ newest' = IF newest = s THEN 0 ELSE newest
    /\ ev' = [e EXCEPT !.ret = outcome, !.beeps = ticks[s].beeps]

\* tick() returns through the finally block of lines 161-163, setBusy(false);
\* st and hit are what the branch taken has set, e the event of the step
TickReturn(s, e, st, hit, outcome) ==
    /\ status' = TickSet(status, st)
    /\ lastHit' = TickSet(lastHit, hit)
    /\ busy' = TickSet(busy, FALSE)
    /\ ticks' = [ticks EXCEPT ![s] = IdleFrame]
    /\ newest' = IF newest = s THEN 0 ELSE newest
    /\ ev' = [e EXCEPT !.ret = outcome, !.beeps = ticks[s].beeps]

\* a catch block that also clears the last alert
TickCatch_ClearsHit(s, op) ==
    TickReturn(s, [NoEvent EXCEPT !.op = op, !.ok = FALSE],
               ErrorConsultando, <<>>, "exception")

\* the catch block of lines 159-160: the await named op rejected
TickCatch(s, op) ==
    TickReturn(s, [NoEvent EXCEPT !.op = op, !.ok = FALSE],
               ErrorConsultando, lastHit, "exception")

\* an HTTP error reported with the generic label
TickHttpError_Generic(s, c) ==
    TickReturn(s, [NoEvent EXCEPT !.op = "fetch", !.code = c],
               ErrorConsultando, lastHit, "http")

\* if (!res.ok), lines 143-146
TickHttpError(s, c) ==
    TickReturn(s, [NoEvent EXCEPT !.op = "fetch", !.code = c],
               BackendLabel(c), lastHit, "http")

\* an empty answer that keeps the last alert
TickEmpty_KeepsHit(s, h) ==
    TickReturn(s, [NoEvent EXCEPT !.op = "json", !.hits = h],
               SinIncidencias, lastHit, "empty")

\* if (!hits.length), lines 149-153
TickEmpty(s, h) ==
    TickReturn(s, [NoEvent EXCEPT !.op = "json", !.hits = h],
               SinIncidencias, <<>>, "empty")

\* the last element taken instead of the first
NearestHit_Last(h) == h[Len(h)]

\* const hit = hits[0], line 155
NearestHit(h) == h[1]

\* an alert branch that sets the status but not the last alert
TickAlert_StatusOnly(s, h) ==
    /\ lastHit' = lastHit
    /\ status' = TickSet(status, ALERTA)
    /\ ticks' = [ticks EXCEPT
                    ![s].beeps = @ + 1,
                    ![s].pc = IF soundRef = 0 THEN "creating" ELSE "replaying"]
    /\ ev' = [NoEvent EXCEPT !.op = "json", !.hits = h,
                             !.beeps = ticks[s].beeps + 1]
    /\ UNCHANGED <<busy, newest>>

\* lines 155-158 and beep() up to its first await, lines 115-123
TickAlert(s, h) ==
    /\ lastHit' = TickSet(lastHit, <<NearestHit(h)>>)
    /\ status' = TickSet(status, ALERTA)
    /\ ticks' = [ticks EXCEPT
                    ![s].beeps = @ + 1,
                    ![s].pc = IF soundRef = 0 THEN "creating" ELSE "replaying"]
    /\ ev' = [NoEvent EXCEPT !.op = "json", !.hits = h,
                             !.beeps = ticks[s].beeps + 1]
    /\ UNCHANGED <<busy, newest>>

\* a beep() without its try/catch: the rejection reaches the catch of tick()
BeepCaught_Throws(s, op) ==
    TickReturn(s, [NoEvent EXCEPT !.op = op, !.ok = FALSE],
               ErrorConsultando, lastHit, "exception")

\* the catch of beep(), lines 124-126: the await named op rejected, beep()
\* returns normally and tick() returns after it, writing nothing but busy
BeepCaught(s, op) ==
    TickReturn(s, [NoEvent EXCEPT !.op = op, !.ok = FALSE],
               status, lastHit, "alert")

\* ---- initial state ------------------------------------------------------
Init ==
    /\ mounted = TRUE
    /\ perm = "asking"
    /\ driving = FALSE
    /\ status = Listo
    /\ busy = FALSE
    /\ lastHit = <<>>
    /\ timerRef = 0
    /\ soundRef = 0
    /\ timers = {}
    /\ sounds = 0
    /\ ticks = [s \in Slots |-> IdleFrame]
    /\ newest = Unordered
    /\ ev = NoEvent

\* ---- handlers -----------------------------------------------------------
\* the mount effect, lines 102-109: requestForegroundPermissionsAsync
\* resolves; when the answer is not "granted" the advisory is raised
PermDone ==
    /\ perm = "asking"
    /\ \E p \in {"granted", "denied"} :
          /\ perm' = p
          /\ ev' = [NoEvent EXCEPT !.op = "permission", !.ok = (p = "granted")]
    /\ UNCHANGED <<mounted, driving, status, busy, lastHit, timerRef, soundRef,
                   timers, sounds, ticks, newest>>

\* Alert.alert("Permiso requerido", ...), lines 105-107, has been raised
Advisory == perm = "denied"

\* a start button that works only with the permission granted
StartDriving_NeedsPermission ==
    /\ mounted /\ ~driving /\ perm = "granted"
    /\ driving' = SetState(driving, TRUE)
    /\ TickEnter("startDriving", SetState(status, Activa))
    /\ timerRef' = FreshTimer
    /\ timers' = timers \cup {FreshTimer}
    /\ UNCHANGED <<mounted, perm, lastHit, soundRef, sounds>>

\* startDriving, lines 166-171; the button is rendered only while !driving
StartDriving ==
    /\ mounted /\ ~driving
    /\ driving' = SetState(driving, TRUE)
    \* setStatus("Conduccion activa"), then tick() sets its own in the same handler
    /\ TickEnter("startDriving", SetState(status, Activa))
    /\ timerRef' = FreshTimer
    /\ timers' = timers \cup {FreshTimer}
    /\ UNCHANGED <<mounted, perm, lastHit, soundRef, sounds>>

\* stopDriving that forgets clearInterval
StopBody_NoClear ==
    /\ driving' = SetState(driving, FALSE)
    /\ timers' = timers
    /\ timerRef' = 0
    /\ busy' = SetState(busy, FALSE)
    /\ status' = SetState(status, Parado)

\* stopDriving that forgets timerRef.current = null
StopBody_KeepsRef ==
    /\ driving' = SetState(driving, FALSE)
    /\ timers' = IF timerRef # 0 THEN timers \ {timerRef} ELSE timers
    /\ timerRef' = timerRef
    /\ busy' = SetState(busy, FALSE)
    /\ status' = SetState(status, Parado)

\* stopDriving that forgets setBusy(false)
StopBody_KeepsBusy ==
    /\ driving' = SetState(driving, FALSE)
    /\ timers' = IF timerRef # 0 THEN timers \ {timerRef} ELSE timers
    /\ timerRef' = 0
    /\ busy' = busy
    /\ status' = SetState(status, Parado)

\* the body of stopDriving, lines 173-179
StopBody ==
    /\ driving' = SetState(driving, FALSE)
    /\ timers' = IF timerRef # 0 THEN timers \ {timerRef} ELSE timers
    /\ timerRef' = 0
    /\ busy' = SetState(busy, FALSE)
    /\ status' = SetState(status, Parado)

\* the "Detener" button, rendered only while driving
StopDriving ==
    /\ mounted /\ driving
    /\ StopBody
    /\ ev' = [NoEvent EXCEPT !.op = "stopDriving"]
    /\ UNCHANGED <<mounted, perm, lastHit, soundRef, sounds, ticks, newest>>

\* an unmount without the effect cleanup
Unmount_NoCleanup ==
    /\ mounted
    /\ mounted' = FALSE
    /\ ev' = [NoEvent EXCEPT !.op = "unmount"]
    /\ UNCHANGED <<perm, driving, status, busy, lastHit, timerRef, soundRef,
                   timers, sounds, ticks, newest>>

\* the effect cleanup of lines 102-113: stopDriving runs at unmount
Unmount ==
    /\ mounted
    /\ StopBody
    /\ mounted' = FALSE
    /\ ev' = [NoEvent EXCEPT !.op = "unmount"]
    /\ UNCHANGED <<perm, lastHit, soundRef, sounds, ticks, newest>>

\* a one-shot timer (setTimeout) in place of the interval
TimerFire_OneShot ==
    /\ \E id \in timers : timers' = timers \ {id}
    /\ TickEnter("timer", status)
    /\ UNCHANGED <<mounted, perm, driving, lastHit, timerRef, soundRef, sounds>>

\* a fire of the interval armed at line 170
TimerFire ==
    /\ \E id \in timers : TRUE
    /\ TickEnter("timer", status)
    /\ UNCHANGED <<mounted, perm, driving, lastHit, timerRef, soundRef, timers, sounds>>

\* a "Probar ahora" button that is not disabled while busy
ManualTick_IgnoresBusy ==
    /\ mounted /\ driving
    /\ TickEnter("manual", status)
    /\ UNCHANGED <<mounted, perm, driving, lastHit, timerRef, soundRef, timers, sounds>>

\* the "Probar ahora" button, lines 323-336: disabled={!driving || busy}
ManualTick ==
    /\ mounted /\ driving /\ ~busy
    /\ TickEnter("manual", status)
    /\ UNCHANGED <<mounted, perm, driving, lastHit, timerRef, soundRef, timers, sounds>>

\* ---- continuations of tick() -------------------------------------------
\* getCurrentPositionAsync settles, lines 133-141; the location provider
\* answers with a position only when the permission is granted
LocateDone(s) ==
    /\ ticks[s].pc = "locating"
    /\ \/ \E p \in Positions :
            /\ perm = "granted"
            /\ status' = TickSet(status, Consultando)
            /\ ticks' = [ticks EXCEPT ![s].url = <<Url(p[1], p[2])>>,
                                      ![s].pc = "fetching"]
            /\ ev' = [NoEvent EXCEPT !.op = "locate", !.pos = p]
            /\ UNCHANGED <<busy, lastHit, newest>>
       \/ TickCatch(s, "locate")
    /\ TickLeaves
    /\ UNCHANGED <<soundRef, sounds>>

\* fetch(url) settles, lines 141-148
FetchDone(s) ==
    /\ ticks[s].pc = "fetching"
    /\ \/ \E c \in StatusCodes :
            IF ~ResOk(c)
            THEN TickHttpError(s, c)
            ELSE /\ ticks' = [ticks EXCEPT ![s].url = <<>>,
                                           ![s].pc = "parsing"]
                 /\ ev' = [NoEvent EXCEPT !.op = "fetch", !.code = c]
                 /\ UNCHANGED <<status, busy, lastHit, newest>>
       \/ TickCatch(s, "fetch")
    /\ TickLeaves
    /\ UNCHANGED <<soundRef, sounds>>

\* res.json() settles, lines 148-158
ParseDone(s) ==
    /\ ticks[s].pc = "parsing"
    /\ \/ \E h \in HitLists :
            IF Len(h) = 0 THEN TickEmpty(s, h) ELSE TickAlert(s, h)
       \/ TickCatch(s, "json")
    /\ TickLeaves
    /\ UNCHANGED <<soundRef, sounds>>

\* Audio.Sound.createAsync settles, lines 118-123; a rejection is caught by
\* beep() (lines 124-126) and tick() returns
CreateDone(s) ==
    /\ ticks[s].pc = "creating"
    /\ \/ /\ sounds' = sounds + 1
          /\ soundRef' = sounds + 1
          /\ ticks' = [ticks EXCEPT ![s].pc = "replaying"]
          /\ ev' = [NoEvent EXCEPT !.op = "create",
                                   !.beeps = ticks[s].beeps]
          /\ UNCHANGED <<status, busy, lastHit, newest>>
       \/ /\ BeepCaught(s, "create")
          /\ UNCHANGED <<soundRef, sounds>>
    /\ TickLeaves

\* soundRef.current.replayAsync() settles, line 123: resolved or rejected
\* (caught, lines 124-126), beep() returns and tick() returns after it
ReplayDone(s) ==
    /\ ticks[s].pc = "replaying"
    /\ \/ TickReturn(s, [NoEvent EXCEPT !.op = "replay"],
                     status, lastHit, "alert")
       \/ BeepCaught(s, "replay")
    /\ TickLeaves
    /\ UNCHANGED <<soundRef, sounds>>

\* one continuation of the activation in slot s
TickStep(s) ==
    \/ LocateDone(s)
    \/ FetchDone(s)
    \/ ParseDone(s)
    \/ CreateDone(s)
    \/ ReplayDone(s)

Next ==
    \/ PermDone
    \/ StartDriving
    \/ StopDriving
    \/ Unmount
    \/ TimerFire
    \/ ManualTick
    \/ \E s \in Slots : LocateDone(s)
    \/ \E s \in Slots : FetchDone(s)
    \/ \E s \in Slots : ParseDone(s)
    \/ \E s \in Slots : CreateDone(s)
    \/ \E s \in Slots : ReplayDone(s)

Spec == Init /\ [][Next]_vars

\* every awaited operation eventually resolves or rejects
FairSpec == Spec /\ \A s \in Slots : WF_vars(TickStep(s))

\* the initial state, with the start order of the ticks kept from then on
OrderInit ==
    /\ mounted = TRUE
    /\ perm = "asking"
    /\ driving = FALSE
    /\ status = Listo
    /\ busy = FALSE
    /\ lastHit = <<>>
    /\ timerRef = 0
    /\ soundRef = 0
    /\ timers = {}
    /\ sounds = 0
    /\ ticks = [s \in Slots |-> IdleFrame]
    /\ newest = 0
    /\ ev = NoEvent

\* the program, with the start order of its ticks kept in newest
OrderSpec == OrderInit /\ [][Next]_vars

\* ---- claims -------------------------------------------------------------
\* the events that are continuations of tick()
TickOps == {"locate", "fetch", "json", "create", "replay"}

\* the step resumes the activation in slot s
Resumed(s) == InFlight(s) /\ ticks'[s] # ticks[s]

\* C1: once stopDriving has run, no interval timer is armed and, until
\* startDriving runs again, no step enters a new tick: whatever runs after
\* the stop (a backend request included) belongs to a tick that was in flight
\* at the stop.
C1_NoTickAfterStop ==
    /\ [](~driving => timers = {})
    /\ [][(~driving /\ ~driving') =>
            \A s \in Slots : ticks[s].pc = "idle" => ticks'[s].pc = "idle"]_vars

\* a backend request is issued after the stop, by a tick that was in flight
C1_Witness ==
    /\ mounted /\ ~driving /\ status = Consultando
    /\ ev.op = "locate" /\ ev.ok
    /\ \E s \in Slots : ticks[s].pc = "fetching"

\* C2: in every reachable state at most one tick is in flight.
C2_AtMostOneInFlight == NumInFlight <= 1

\* C3: a tick in flight at stopDriving is not cancelled: while the session is
\* stopped its continuations still write status, the last alert and busy.
C3_LateTickStillWrites ==
    [][\A s \in Slots : (mounted /\ ~driving /\ Resumed(s)) =>
          /\ ev'.op \in TickOps
          /\ (ev'.op = "locate" /\ ev'.ok) => status' = Consultando
          /\ (ev'.op = "json" /\ ev'.ok /\ Len(ev'.hits) > 0) =>
                status' = ALERTA /\ lastHit' = <<ev'.hits[1]>>
          /\ (ev'.op = "json" /\ ev'.ok /\ Len(ev'.hits) = 0) =>
                status' = SinIncidencias /\ lastHit' = <<>>
          /\ (ev'.op \in {"locate", "fetch", "json"} /\ ~ev'.ok) =>
                status' = ErrorConsultando
          /\ ev'.ret # "none" => ~busy']_vars

\* the session is stopped and the screen shows the alert of a late tick
C3_Witness ==
    mounted /\ ~driving /\ timerRef = 0 /\ status = ALERTA /\ lastHit # <<>>

\* C4: when res.json() resolves with a non-empty list, the tick sets the last
\* alert to the first element of the list, sets status to ALERTA and calls
\* beep() once; a tick that returns by the alert branch has called it once.
C4_AlertTakesFirst ==
    /\ [][\A s \in Slots :
            (Resumed(s) /\ ev'.op = "json" /\ ev'.ok /\ Len(ev'.hits) > 0) =>
               /\ mounted => (lastHit' = <<ev'.hits[1]>> /\ status' = ALERTA)
               /\ ticks[s].beeps = 0 /\ ticks'[s].beeps = 1
               /\ ticks'[s].pc \in {"creating", "replaying"}]_vars
    /\ [][\A s \in Slots :
            (Resumed(s) /\ ev'.ret = "alert") => ticks[s].beeps = 1]_vars

\* a list of two different hits was answered and the first one is shown
C4_Witness ==
    /\ mounted /\ ev.op = "json" /\ ev.ok /\ Len(ev.hits) > 1
    /\ ev.hits[1] # ev.hits[Len(ev.hits)]
    /\ lastHit = <<ev.hits[1]>> /\ status = ALERTA

\* C5: when res.json() resolves with an empty list, the tick clears the last
\* alert, sets status to "Sin incidencias cercanas" and returns without
\* calling beep().
C5_EmptyClears ==
    [][\A s \in Slots :
         (Resumed(s) /\ ev'.op = "json" /\ ev'.ok /\ Len(ev'.hits) = 0) =>
            /\ mounted => (lastHit' = <<>> /\ status' = SinIncidencias)
            /\ ev'.ret = "empty" /\ ticks[s].beeps = 0
            /\ ticks'[s].pc = "idle"]_vars

\* an empty answer arrived after an alert had been shown (a sound exists)
C5_Witness ==
    /\ mounted /\ ev.ret = "empty" /\ lastHit = <<>> /\ status = SinIncidencias
    /\ soundRef # 0

\* C6: when fetch resolves with a non-success status code c, the tick sets
\* status to "Backend c" and returns without reading the body and without
\* calling beep(); neither this step nor the steps of the tick before it
\* (entering, the location, the request) change the last alert.
C6_HttpError ==
    /\ [][\A s \in Slots :
            (Resumed(s) /\ ev'.op = "fetch" /\ ev'.ok /\ ~ResOk(ev'.code)) =>
               /\ mounted => status' = "Backend " \o ToString(ev'.code)
               /\ lastHit' = lastHit
               /\ ev'.ret = "http" /\ ticks[s].beeps = 0
               /\ ticks[s].pc = "fetching" /\ ticks'[s].pc = "idle"]_vars
    /\ [][\A s \in Slots :
            (ticks'[s] # ticks[s]
             /\ ticks'[s].pc \in {"locating", "fetching", "parsing"}) =>
               lastHit' = lastHit]_vars

\* HTTP 500 arrived while an alert was shown
C6_Witness ==
    /\ mounted /\ ev.op = "fetch" /\ ev.code = 500 /\ ev.ret = "http"
    /\ status = "Backend 500" /\ lastHit # <<>>

\* C7: when the location request, the HTTP request or res.json() rejects, the
\* tick sets status to "Error consultando backend", leaves the last alert as
\* it was and returns without having called beep().
C7_Exception ==
    [][\A s \in Slots :
         (Resumed(s) /\ ev'.op \in {"locate", "fetch", "json"} /\ ~ev'.ok) =>
            /\ mounted => status' = ErrorConsultando
            /\ lastHit' = lastHit
            /\ ev'.ret = "exception" /\ ticks[s].beeps = 0
            /\ ticks'[s].pc = "idle"]_vars

\* res.json() rejected while an alert was shown
C7_Witness ==
    /\ mounted /\ ev.op = "json" /\ ~ev.ok /\ ev.ret = "exception"
    /\ status = ErrorConsultando /\ lastHit # <<>>

\* C8: no continuation of a tick changes driving, timerRef or the armed
\* timers, and while driving the interval of timerRef stays armed.
C8_TickKeepsSession ==
    /\ [](driving => (timerRef # 0 /\ timerRef \in timers))
    /\ [][(\E s \in Slots : Resumed(s)) =>
            UNCHANGED <<driving, timerRef, timers>>]_vars

\* a tick failed with an exception and the session goes on
C8_Witness ==
    /\ mounted /\ driving /\ ev.ret = "exception" /\ timerRef \in timers

\* C9: no tick stays in flight for ever (each slot is free again and again,
\* so every tick that is in flight eventually returns), and the step by
\* which a tick returns leaves busy=false.
C9_TickCompletes ==
    /\ \A s \in Slots : []<>(~InFlight(s))
    /\ [][\A s \in Slots : (Resumed(s) /\ ticks'[s].pc = "idle") => ~busy']_vars

\* a tick returned during the session and busy is cleared
C9_Witness ==
    mounted /\ driving /\ ev.ret # "none" /\ ~busy

\* C10: startDriving sets driving, enters exactly one tick in the same step
\* and arms exactly one new timer; a fire of the timer enters exactly one
\* tick and leaves the timer armed, so it can fire again without limit.
C10_StartDriving ==
    /\ [][(~driving /\ driving') =>
            /\ ev'.op = "startDriving"
            /\ Cardinality({s \in Slots : ticks[s].pc = "idle"
                                          /\ ticks'[s].pc = "locating"}) = 1
            /\ \A s \in Slots : InFlight(s) => ticks'[s] = ticks[s]
            /\ timerRef' # 0 /\ timerRef' \notin timers
            /\ timers' = timers \cup {timerRef'}]_vars
    /\ [][(ev'.op = "timer" /\ ticks' # ticks) =>
            /\ Cardinality({s \in Slots : ticks[s].pc = "idle"
                                          /\ ticks'[s].pc = "locating"}) = 1
            /\ \A s \in Slots : InFlight(s) => ticks'[s] = ticks[s]
            /\ timers' = timers /\ timerRef' = timerRef]_vars
    /\ []((timers # {} /\ HasFree) => ENABLED TimerFire)

\* the timer fired while the immediate tick of startDriving was in flight
C10_Witness ==
    /\ mounted /\ driving /\ ev.op = "timer" /\ NumInFlight > 1
    /\ timerRef \in timers

\* C11: in the state in which startDriving has returned, the status label is
\* "Conduccion activa".
C11_ActiveAfterStart ==
    [][(mounted /\ ~driving /\ driving') => status' = Activa]_vars

\* C12: whatever the state stopDriving runs in (the "Detener" button while
\* driving, the effect cleanup in any state), it leaves driving=false,
\* busy=false, status "Parado" and no armed timer, and does not change the
\* last alert or any tick in flight; run right after itself it changes
\* nothing of that again.
C12_StopDriving ==
    /\ [][(ev'.op \in {"stopDriving", "unmount"}) =>
            /\ ~driving' /\ ~busy' /\ status' = Parado
            /\ timerRef' = 0 /\ timers' = {}
            /\ lastHit' = lastHit /\ ticks' = ticks]_vars
    /\ [][(ev.op = "stopDriving" /\ ev'.op = "unmount") =>
            UNCHANGED <<driving, busy, status, timerRef, timers, lastHit,
                        soundRef, sounds, ticks>>]_vars

\* stopDriving ran as the effect cleanup with a tick in flight and an alert
\* on the screen: the alert is kept, the tick goes on, busy is cleared
C12_Witness ==
    /\ ev.op = "unmount" /\ ~driving /\ ~busy /\ status = Parado
    /\ lastHit # <<>> /\ NumInFlight > 0 /\ timers = {}

\* C13 as stated: the tick whose sound fails still ends with status ALERTA
\* and a last alert on the screen.
C13_EndsWithAlerta ==
    [][\A s \in Slots :
         (mounted /\ Resumed(s) /\ ev'.op \in {"create", "replay"} /\ ~ev'.ok) =>
            status' = ALERTA /\ lastHit' # <<>>]_vars

\* C13 amended: the step in which the sound fails (createAsync or replayAsync
\* rejects) writes neither status nor the last alert, returns by the alert
\* branch with busy=false and never sets the generic error; when the step
\* before it was a json step of the alert branch, the tick ends with status
\* ALERTA and the first hit of that answer.
C13_SoundFailureKeepsOutcome ==
    [][\A s \in Slots :
         (Resumed(s) /\ ev'.op \in {"create", "replay"} /\ ~ev'.ok) =>
            /\ status' = status /\ lastHit' = lastHit
            /\ ~busy' /\ ev'.ret = "alert" /\ ticks'[s].pc = "idle"
            /\ ticks[s].beeps = 1
            /\ (mounted /\ ev.op = "json" /\ ev.ok /\ Len(ev.hits) > 0) =>
                  (status' = ALERTA /\ lastHit' = <<ev.hits[1]>>)]_vars

\* createAsync rejected right after the alert was set: the alert stands
C13_Witness ==
    /\ mounted /\ ev.op = "create" /\ ~ev.ok /\ ev.ret = "alert"
    /\ status = ALERTA /\ lastHit # <<>> /\ ~busy /\ soundRef = 0

\* C14: over the lifetime of the screen the sound handle is created at most
\* once.
C14_SoundCreatedOnce == sounds <= 1

\* C15: a tick asks for the location exactly once, when it is entered, with
\* status "Obteniendo ubicacion..."; it issues a backend request only in the
\* step in which its own location request resolved, once, with the
\* coordinates of that answer and radiusMeters=2000 and with status
\* "Consultando incidencias..."; the request stays as issued while in flight,
\* and the tick moves on in the order locate, query, branch, play.
C15_OneRequestInOrder ==
    /\ [][\A s \in Slots : (ticks'[s] # ticks[s]) =>
            /\ ticks'[s].pc = "locating" =>
                  /\ ticks[s].pc = "idle"
                  /\ ev'.op \in {"startDriving", "timer", "manual"}
                  /\ mounted => status' = Obteniendo
            /\ ticks'[s].pc = "fetching" =>
                  /\ ticks[s].pc = "locating"
                  /\ ev'.op = "locate" /\ ev'.ok
                  /\ ticks'[s].url = <<[path |-> "/alerts",
                                        lat |-> ev'.pos[1], lon |-> ev'.pos[2],
                                        radiusMeters |-> 2000]>>
                  /\ mounted => status' = Consultando
            /\ ticks'[s].pc = "parsing" =>
                  ticks[s].pc = "fetching" /\ ev'.op = "fetch" /\ ev'.ok
            /\ ticks'[s].pc = "creating" =>
                  ticks[s].pc = "parsing" /\ ev'.op = "json" /\ ev'.ok
            /\ ticks'[s].pc = "replaying" =>
                  \/ ticks[s].pc = "parsing" /\ ev'.op = "json" /\ ev'.ok
                  \/ ticks[s].pc = "creating" /\ ev'.op = "create" /\ ev'.ok
            /\ (ticks[s].pc = "locating" /\ ~ev'.ok) =>
                  ticks'[s].pc = "idle" /\ ticks'[s].url = <<>>]_vars
    /\ [][\A s \in Slots : ticks'[s].url # ticks[s].url =>
            \/ ticks[s].pc = "locating" /\ ticks'[s].pc = "fetching"
            \/ ticks[s].pc = "fetching" /\ ticks'[s].url = <<>>]_vars
    /\ [](\A s \in Slots : ticks[s].url # <<>> <=> ticks[s].pc = "fetching")

\* two overlapping ticks have requests in flight with different coordinates,
\* each the one returned to it
C15_Witness ==
    /\ ev.op = "locate" /\ ev.ok
    /\ \E s, r \in Slots :
          /\ ticks[s].pc = "fetching" /\ ticks[r].pc = "fetching"
          /\ ticks[s].url # ticks[r].url
          /\ ticks[s].url[1].lat = ev.pos[1] /\ ticks[s].url[1].lon = ev.pos[2]
          /\ ticks[s].url[1].radiusMeters = 2000

\* C16: with the permission denied the advisory is up and nothing is
\* disabled: startDriving can run, the timer can fire, every tick entered
\* asks for the location, and the rejection of that request ends the tick
\* with the generic error status, leaving driving and the timer as they are.
C16_DeniedDoesNotDisable ==
    /\ []((perm = "denied" /\ mounted /\ ~driving /\ HasFree) =>
              (Advisory /\ ENABLED StartDriving))
    /\ []((perm = "denied" /\ timers # {} /\ HasFree) => ENABLED TimerFire)
    /\ [][perm = "denied" =>
            \A s \in Slots : (ticks'[s] # ticks[s]) =>
               \/ ticks[s].pc = "idle" /\ ticks'[s].pc = "locating"
               \/ /\ ticks[s].pc = "locating" /\ ticks'[s].pc = "idle"
                  /\ ev'.op = "locate" /\ ~ev'.ok /\ ev'.ret = "exception"
                  /\ mounted => status' = ErrorConsultando
                  /\ UNCHANGED <<driving, timerRef, timers>>]_vars

\* permission denied, the session was started, a tick failed on the
\* location request and the session goes on
C16_Witness ==
    /\ perm = "denied" /\ mounted /\ driving /\ timerRef \in timers
    /\ ev.op = "locate" /\ ~ev.ok /\ status = ErrorConsultando

\* C17: the "Probar ahora" action is enabled only in states with driving=true
\* and busy=false, and a tick entered by it is entered from such a state.
C17_ManualOnlyIdleDriving ==
    /\ []((ENABLED ManualTick) => (mounted /\ driving /\ ~busy))
    /\ []((~driving \/ busy) => ~(ENABLED ManualTick))
    /\ [][(ev'.op = "manual" /\ ticks' # ticks) => (driving /\ ~busy)]_vars

\* the manual action entered a tick while another tick was still in flight
\* (busy had been cleared by a tick that returned earlier)
C17_Witness ==
    mounted /\ driving /\ ev.op = "manual" /\ busy /\ NumInFlight > 1

\* C18: once the screen is unmounted, driving is false, no timer is armed,
\* timerRef is null and no step enters a tick any more.
C18_UnmountStops ==
    /\ [](~mounted => (~driving /\ timers = {} /\ timerRef = 0))
    /\ [][~mounted' =>
            /\ \A s \in Slots : ticks[s].pc = "idle" => ticks'[s].pc = "idle"
            /\ ev'.op \notin {"startDriving", "timer", "manual"}]_vars

\* the screen was unmounted with a tick in flight, which goes on and issues
\* its request; no other tick is entered
C18_Witness ==
    /\ ~mounted /\ timers = {} /\ ev.op = "locate" /\ ev.ok
    /\ \E s \in Slots : ticks[s].pc = "fetching"

\* C19: in every reachable state, status ALERTA comes with a last alert and
\* status "Sin incidencias cercanas" comes with none.
C19_StatusMatchesAlert ==
    /\ status = ALERTA => lastHit # <<>>
    /\ status = SinIncidencias => lastHit = <<>>

\* a tick of a stopped session set ALERTA while another tick is in flight
C19_Witness ==
    /\ mounted /\ ~driving /\ status = ALERTA /\ lastHit # <<>>
    /\ NumInFlight > 1

\* C20: with startDriving offered only while driving=false, timerRef holds a
\* timer exactly when driving=true, the timers armed are exactly the one of
\* timerRef, and so there is never more than one.
C20_TimerIffDriving ==
    /\ timerRef # 0 <=> driving
    /\ timers = IF timerRef # 0 THEN {timerRef} ELSE {}
    /\ Cardinality(timers) <= 1

\* a second session was started while a tick of the first is still in flight
C20_Witness ==
    /\ mounted /\ driving /\ ev.op = "startDriving" /\ NumInFlight > 1
    /\ timers = {timerRef}

\* C21: while driving is true, busy is true in every state in which some
\* tick is in flight (busy false implies that no tick is in flight).
C21_BusyWhileInFlight == (driving /\ NumInFlight > 0) => busy

\* the tick called last has its result out (it has returned, or it has set
\* the alert and is in beep()) and the activation in slot s is an earlier one
LaterResultOut(s) ==
    /\ newest # s
    /\ \/ newest = 0
       \/ newest \in Slots /\ ticks[newest].pc \in {"creating", "replaying"}

\* C22: a tick that started earlier never overwrites the result of a tick
\* that started later (a tick of a previous driving session included): once
\* the most recently started tick has written its result, no continuation
\* of an earlier tick changes the status or the last alert shown, so with no
\* tick in flight they are the ones of the most recently started tick.
C22_NoStaleOverwrite ==
    [][\A s \in Slots :
          (Resumed(s) /\ LaterResultOut(s)) =>
              (status' = status /\ lastHit' = lastHit)]_vars

====
